---- MODULE Spec2Model ----
(***************************************************************************)
(* Company-Analyzer frontend.  The module models six parts of the          *)
(* program over one list of variables, each with a specification of its    *)
(* own that leaves the variables of the other parts unchanged:             *)
(*                                                                         *)
(*   Spec             the job polling session of the IndexingStatus        *)
(*                    component (components/indexing-status.tsx)           *)
(*   SpecLive         the same session, never torn down, under fairness    *)
(*   SpecSSE          streamChat, the SSE stream consumer (lib/api.ts)     *)
(*   SpecFetch        fetchWithRetry and handleResponse (lib/api.ts)       *)
(*   SpecStatusCheck  the polling session with its status checks run by    *)
(*                    fetchWithRetry                                       *)
(*   SpecChat         handleSend of ChatInterface                          *)
(*                    (components/chat-interface.tsx)                      *)
(*   SpecChatLive     the same, with streams that close or throw           *)
(*   SpecPage         the handlers of the page Home (app/page.tsx)         *)
(*   SpecSearch       the debounced search of TickerSearch                 *)
(*                    (components/ticker-search.tsx)                       *)
(*                                                                         *)
(* For the polling session one mounted IndexingStatus component is         *)
(* modelled: its React state (status, hasStarted, elapsedTime), the        *)
(* closure variables of the effect run that started the session            *)
(* (cancelled, timerInterval), the position of the async function          *)
(* startIndexing / pollStatus, and counters that record which requests     *)
(* were issued and which callbacks were invoked.                           *)
(***************************************************************************)
EXTENDS Integers, Sequences, FiniteSets, TLC

\* ------------------------------------------------------------------ bounds

\* Largest number of status requests one session is followed through.
MaxPolls == 3

\* Largest value of the elapsed-seconds display that is followed.
MaxElapsed == 1

\* ------------------------------------------------------------ value domains

\* Texts are sequences of tokens, so that String.includes is a real
\* sub-sequence search and the empty string is the empty sequence.
Sentinel == <<"already", "_", "indexed">>

FallbackIndexingFailed == <<"Indexing failed">>

\* Messages carried by a rejected request (ApiError detail, fetch failure).
ErrMsgs ==
    { <<"Request", "failed">>,
      <<"already", "_", "indexed">>,
      <<"Ticker", "already", "_", "indexed", "today">>,
      <<"already", "_", "done">> }

\* Messages a status response may carry.
StatusMsgs == { <<>>, <<"Filing", "not", "found">> }

Statuses == {"not_started", "processing", "complete", "error"}

Progresses == {10, 60}

\* IndexStatus: message is optional (hasMessage = FALSE models undefined).
IndexStatusValues ==
    { r \in [status : Statuses, progress : Progresses,
             hasMessage : BOOLEAN, message : StatusMsgs] :
        ~r.hasMessage => r.message = <<>> }

\* Statuses of the start response, POST /api/analysis/index.
StartStatuses == {"started", "already_done", "done"}

NotStarted == [status |-> "not_started", progress |-> 0,
               hasMessage |-> FALSE, message |-> <<>>]

\* ------------------------------------------------------------------- state

VARIABLES
    mounted,          \* the component is mounted
    effectPending,    \* a committed render whose effect has not run yet
    effectRuns,       \* whether an effect run exists whose cleanup is due
    propsChanged,     \* a prop changed since the last effect run
    status,           \* useState: status
    hasStarted,       \* useState: hasStarted
    elapsedTime,      \* useState: elapsedTime
    cancelled,        \* closure variable of the effect run of the session
    timerInterval,    \* the elapsed-time interval is armed
    pc,               \* position of startIndexing / pollStatus
    startRequests,    \* indexCompany calls issued
    statusRequests,   \* getIndexStatus calls issued
    startOutcome,     \* "none", a start status, or "rejected"
    startError,       \* message of the rejected start request
    responses,        \* outcomes of the status requests, in order
    lastFailure,      \* message of the last rejected status request
    lastResponse,     \* the last status response received
    onCompleteCalls,  \* invocations of onComplete
    onErrorCalls,     \* invocations of onError
    onErrorArg,       \* argument of the last onError invocation
    unhandled,        \* rejections of pollStatus promises nobody awaits
    pollTimers        \* setTimeout(pollStatus, 1000) timers set and not fired

\* State of one streamChat call (lib/api.ts), from the reader on.
VARIABLES
    content,          \* the bytes the response body delivers, in order
    ssePos,           \* bytes already delivered by reader.read()
    decoderPending,   \* bytes the TextDecoder holds back (stream: true)
    buffer,           \* let buffer
    lines,            \* lines of the current chunk still to be processed
    events,           \* values yielded so far, in order
    ssePc,            \* "idle", "read", "lines", "yield", "done" or "threw"
    sseError,         \* what was thrown: "none", "read" or "parse"
    sseReads,         \* chunks delivered by reader.read()
    midCuts,          \* chunks that ended inside a line or a character
    pulls             \* times the consumer resumed the generator after a yield

\* State of one request: fetchWithRetry followed by handleResponse.
VARIABLES
    retries,          \* the retries argument of fetchWithRetry
    attempt,          \* the loop variable attempt
    attemptsMade,     \* fetch calls issued
    timedOut,         \* attempts ended by the deadline timer
    failures,         \* attempts ended by another error
    received,         \* attempts that received an HTTP response
    timerArmed,       \* attempts whose deadline timer is set and not yet
                      \* cleared or fired
    callerAborted,    \* the signal in the caller's options was aborted
    response,         \* the Response fetchWithRetry returned
    fetchPc,          \* "idle", "fetching", "body", "returned" or "threw"
    thrown            \* the error the request ended with

\* State of the ChatInterface component (components/chat-interface.tsx).
VARIABLES
    chatTicker,       \* prop ticker
    isReady,          \* prop isReady
    messages,         \* useState: messages (the transcript)
    input,            \* useState: input
    isStreaming,      \* useState: isStreaming
    currentSources,   \* useState: currentSources
    chatPc,           \* position of handleSend: "idle", "opening", "streaming"
    fullContent,      \* let fullContent
    sources,          \* let sources
    script,           \* the events the stream of this send delivers
    delivered,        \* events of the script already delivered
    sends,            \* handleSend calls accepted
    lenBefore,        \* length of the transcript when the send was accepted
    fragments,        \* data of the content events delivered in this send
    lastEvent,        \* type of the last event delivered in this send
    resetDuringSend,  \* the ticker changed while this send was under way
    overlapCall       \* handleSend was invoked while this send was under way

\* State of the page component Home (app/page.tsx) and of the calls of its
\* handlers that are awaiting a response.
VARIABLES
    state,            \* useState: state
    ticker,           \* useState: ticker
    company,          \* useState: company
    financials,       \* useState: financials
    analysis,         \* useState: analysis
    pageError,        \* useState: error
    searches,         \* the handleSearch calls, in order of invocation
    completions,      \* the handleIndexComplete calls, in order of invocation
    sessions,         \* the IndexingStatus components mounted so far
    analysisRequests, \* getAnalysis calls issued
    jobStarts         \* indexCompany calls issued

\* State of the TickerSearch component (the debounced search).
VARIABLES
    query,            \* useState: query
    results,          \* useState: results, with the query they answer
    showDropdown,     \* useState: showDropdown
    isSearching,      \* useState: isSearching
    debounceTimers,   \* trimmed queries of the 300 ms timers set and not
                      \* yet cleared or fired
    searchRequests    \* the searchCompanies calls, in order of issue

pollVars == << mounted, effectPending, effectRuns, propsChanged, status,
               hasStarted, elapsedTime,
               cancelled, timerInterval, pc, startRequests, statusRequests,
               startOutcome, startError, responses, lastFailure, lastResponse,
               onCompleteCalls, onErrorCalls, onErrorArg, unhandled,
               pollTimers >>

sseVars == << content, ssePos, decoderPending, buffer, lines, events, ssePc,
              sseError, sseReads, midCuts, pulls >>

fetchVars == << retries, attempt, attemptsMade, timedOut, failures, received, timerArmed,
                callerAborted, response, fetchPc, thrown >>

chatVars == << chatTicker, isReady, messages, input, isStreaming, currentSources,
               chatPc, fullContent, sources, script, delivered, sends,
               lenBefore, fragments, lastEvent, resetDuringSend, overlapCall >>

pageVars == << state, ticker, company, financials, analysis, pageError, searches,
               completions, sessions, analysisRequests, jobStarts >>

searchVars == << query, results, showDropdown, isSearching, debounceTimers,
                 searchRequests >>

vars == << pollVars, sseVars, fetchVars, chatVars, pageVars, searchVars >>

\* What each part leaves alone.
outsidePoll == << sseVars, fetchVars, chatVars, pageVars, searchVars >>
outsideSse == << pollVars, fetchVars, chatVars, pageVars, searchVars >>
outsideFetch == << pollVars, sseVars, chatVars, pageVars, searchVars >>
outsideChat == << pollVars, sseVars, fetchVars, pageVars, searchVars >>
outsidePage == << pollVars, sseVars, fetchVars, chatVars, searchVars >>
outsideSearch == << pollVars, sseVars, fetchVars, chatVars, pageVars >>

componentVars ==
    << mounted, effectPending, effectRuns, propsChanged, hasStarted >>
historyVars == << startOutcome, startError, responses, lastFailure, lastResponse >>
callbackVars == << onCompleteCalls, onErrorCalls, onErrorArg >>

\* ----------------------------------------------------------- pure helpers

\* String.prototype.includes
Includes(message, pattern) ==
    \E i \in 1..(Len(message) - Len(pattern) + 1) :
        SubSeq(message, i, i + Len(pattern) - 1) = pattern

\* Variant: the sentinel compared with === instead of includes.
AlreadyIndexed_Exact(message) == message = Sentinel

\* message.includes("already_indexed")
AlreadyIndexed(message) == Includes(message, Sentinel)

\* Variant: the message passed on without the || fallback.
ErrorMessage_NoFallback(currentStatus) == currentStatus.message

\* currentStatus.message || "Indexing failed"
ErrorMessage(currentStatus) ==
    IF currentStatus.hasMessage /\ currentStatus.message # <<>>
    THEN currentStatus.message
    ELSE FallbackIndexingFailed

\* Variant: pollStatus without its cancellation guard.
PollGuard_Missing == FALSE

\* if (cancelled) return;   -- the guard at the head of pollStatus
PollGuard == cancelled

\* if (!cancelled) { ... }  -- the guard of the catch block
CatchReports == ~cancelled

\* Variant: completion also inferred from the progress value.
IsComplete_ByProgress(currentStatus) ==
    currentStatus.status = "complete" \/ currentStatus.progress >= 60

IsComplete(currentStatus) == currentStatus.status = "complete"

IsError(currentStatus) ==
    ~IsComplete(currentStatus) /\ currentStatus.status = "error"

\* Variant: the timer is also set after a response "complete".
SchedulesPoll_AfterComplete(currentStatus) ==
    currentStatus.status \in {"processing", "complete"}

\* Variant: the timer is also set after a response "error".
SchedulesPoll_AfterError(currentStatus) ==
    currentStatus.status \in {"processing", "error"}

\* Variant: a bare else, so every non-terminal status sets the timer.
SchedulesPoll_Unconditional(currentStatus) ==
    currentStatus.status \notin {"complete", "error"}

\* else if (currentStatus.status === "processing") setTimeout(pollStatus, 1000)
SchedulesPoll(currentStatus) ==
    /\ ~IsComplete(currentStatus)
    /\ ~IsError(currentStatus)
    /\ currentStatus.status = "processing"

\* The effect's cleanup, run before the effect runs again and at unmount.
\* Only the first effect run starts a session, so the cancelled and
\* timerInterval it sets are the ones the session reads.
Cleanup ==
    /\ cancelled' = (IF effectRuns THEN TRUE ELSE cancelled)
    /\ timerInterval' = (IF effectRuns THEN FALSE ELSE timerInterval)

\* The catch block of startIndexing, entered with the thrown message.
Catch(message) ==
    /\ timerInterval' = FALSE
    /\ IF CatchReports
       THEN IF AlreadyIndexed(message)
            THEN /\ onCompleteCalls' = onCompleteCalls + 1
                 /\ UNCHANGED << onErrorCalls, onErrorArg >>
            ELSE /\ onErrorCalls' = onErrorCalls + 1
                 /\ onErrorArg' = message
                 /\ UNCHANGED onCompleteCalls
       ELSE UNCHANGED callbackVars
    /\ pc' = "done"

\* -------------------------------------------------------------------- Init

\* The component after its first render, before its effect has run.
PollInit ==
    /\ mounted = TRUE
    /\ effectPending = TRUE
    /\ effectRuns = FALSE
    /\ propsChanged = FALSE
    /\ status = NotStarted
    /\ hasStarted = FALSE
    /\ elapsedTime = 0
    /\ cancelled = FALSE
    /\ timerInterval = FALSE
    /\ pc = "idle"
    /\ startRequests = 0
    /\ statusRequests = 0
    /\ startOutcome = "none"
    /\ startError = <<>>
    /\ responses = <<>>
    /\ lastFailure = <<>>
    /\ lastResponse = NotStarted
    /\ onCompleteCalls = 0
    /\ onErrorCalls = 0
    /\ onErrorArg = <<>>
    /\ unhandled = 0
    /\ pollTimers = 0

\* No streamChat call is under way.
SseIdle ==
    /\ content = <<>>
    /\ ssePos = 0
    /\ decoderPending = <<>>
    /\ buffer = <<>>
    /\ lines = <<>>
    /\ events = <<>>
    /\ ssePc = "idle"
    /\ sseError = "none"
    /\ sseReads = 0
    /\ midCuts = 0
    /\ pulls = 0

\* Values of response and thrown while there is none.
NoResponse == [ok |-> FALSE, status |-> 0, body |-> "none"]
NoError == [name |-> "none", message |-> <<>>, status |-> 0]

\* No request is under way.
FetchIdle ==
    /\ retries = 0
    /\ attempt = 0
    /\ attemptsMade = 0
    /\ timedOut = 0
    /\ failures = 0
    /\ received = 0
    /\ timerArmed = {}
    /\ callerAborted = FALSE
    /\ response = NoResponse
    /\ fetchPc = "idle"
    /\ thrown = NoError

\* The ChatInterface component after its first render.
ChatInit ==
    /\ chatTicker = "AAPL"
    /\ isReady = FALSE
    /\ messages = <<>>
    /\ input = <<>>
    /\ isStreaming = FALSE
    /\ currentSources = <<>>
    /\ chatPc = "idle"
    /\ fullContent = <<>>
    /\ sources = <<>>
    /\ script = <<>>
    /\ delivered = 0
    /\ sends = 0
    /\ lenBefore = 0
    /\ fragments = <<>>
    /\ lastEvent = "none"
    /\ resetDuringSend = FALSE
    /\ overlapCall = FALSE

\* null, and a response not yet received.
Null == "null"
Pending == "pending"
NoCompany == [ticker |-> Null, is_indexed |-> FALSE]
PendingCompany == [ticker |-> Pending, is_indexed |-> FALSE]

\* The page after its first render.
PageInit ==
    /\ state = "idle"
    /\ ticker = ""
    /\ company = NoCompany
    /\ financials = Null
    /\ analysis = Null
    /\ pageError = Null
    /\ searches = <<>>
    /\ completions = <<>>
    /\ sessions = <<>>
    /\ analysisRequests = 0
    /\ jobStarts = 0

\* setResults([]): an empty list, which answers no query.
NoResults == [items |-> 0, answers |-> <<>>]

\* The TickerSearch component after its first render and effect run.
SearchInit ==
    /\ query = <<>>
    /\ results = NoResults
    /\ showDropdown = FALSE
    /\ isSearching = FALSE
    /\ debounceTimers = {}
    /\ searchRequests = <<>>

Init ==
    PollInit /\ SseIdle /\ FetchIdle /\ ChatInit /\ PageInit /\ SearchInit

\* ----------------------------------------------------------------- actions

\* Variant: every effect run starts a session.
ShouldStart_Always == TRUE

\* if (!hasStarted)
ShouldStart == ~hasStarted

\* The effect runs after a commit: the previous run's cleanup, then the body.
\* The body starts the session when hasStarted is false; setHasStarted(true)
\* changes a dependency, so another effect run becomes due.
RunEffect ==
    /\ mounted /\ effectPending
    /\ effectRuns' = TRUE
    /\ propsChanged' = FALSE
    /\ IF ShouldStart
       THEN /\ hasStarted' = TRUE
            /\ effectPending' = TRUE
            /\ cancelled' = FALSE
            /\ timerInterval' = TRUE
            /\ pc' = "start"
            /\ startRequests' = startRequests + 1
       ELSE /\ Cleanup
            /\ effectPending' = FALSE
            /\ UNCHANGED << hasStarted, pc, startRequests >>
    /\ UNCHANGED << mounted, status, elapsedTime, statusRequests, unhandled,
                    pollTimers >>
    /\ UNCHANGED historyVars
    /\ UNCHANGED callbackVars
    /\ UNCHANGED outsidePoll

\* The parent re-renders with another ticker, onComplete or onError.
PropsChange ==
    /\ mounted /\ ~effectPending
    /\ effectPending' = TRUE
    /\ propsChanged' = TRUE
    /\ UNCHANGED << mounted, effectRuns, status, hasStarted, elapsedTime,
                    cancelled, timerInterval, pc, startRequests,
                    statusRequests, unhandled,
                    pollTimers >>
    /\ UNCHANGED historyVars
    /\ UNCHANGED callbackVars
    /\ UNCHANGED outsidePoll

\* The parent stops rendering the component: the cleanup runs.
Unmount ==
    /\ mounted
    /\ mounted' = FALSE
    /\ effectPending' = FALSE
    /\ Cleanup
    /\ UNCHANGED << effectRuns, propsChanged, status, hasStarted, elapsedTime,
                    pc,
                    startRequests, statusRequests, unhandled,
                    pollTimers >>
    /\ UNCHANGED historyVars
    /\ UNCHANGED callbackVars
    /\ UNCHANGED outsidePoll

\* The interval callback: setElapsedTime(...).
ElapsedTick ==
    /\ timerInterval
    /\ mounted
    /\ elapsedTime < MaxElapsed
    /\ elapsedTime' = elapsedTime + 1
    /\ UNCHANGED << mounted, effectPending, effectRuns, propsChanged, status,
                    hasStarted,
                    cancelled, timerInterval, pc, startRequests,
                    statusRequests, unhandled,
                    pollTimers >>
    /\ UNCHANGED historyVars
    /\ UNCHANGED callbackVars
    /\ UNCHANGED outsidePoll

\* await indexCompany(ticker) resolves; its value is not read.  pollStatus
\* is called: it returns at once when cancelled, else issues a status request.
StartResolve(startStatus) ==
    /\ pc = "start"
    /\ startOutcome' = startStatus
    /\ IF PollGuard
       THEN /\ pc' = "done"
            /\ UNCHANGED statusRequests
       ELSE /\ pc' = "firstStatus"
            /\ statusRequests' = statusRequests + 1
    /\ UNCHANGED << startError, responses, lastFailure, lastResponse >>
    /\ UNCHANGED componentVars
    /\ UNCHANGED callbackVars
    /\ UNCHANGED << status, elapsedTime, cancelled, timerInterval,
                    startRequests, unhandled,
                    pollTimers >>
    /\ UNCHANGED outsidePoll

\* await indexCompany(ticker) rejects: the catch block.
StartReject(message) ==
    /\ pc = "start"
    /\ startOutcome' = "rejected"
    /\ startError' = message
    /\ Catch(message)
    /\ UNCHANGED << responses, lastFailure, lastResponse >>
    /\ UNCHANGED componentVars
    /\ UNCHANGED << status, elapsedTime, cancelled, startRequests,
                    statusRequests, unhandled,
                    pollTimers >>
    /\ UNCHANGED outsidePoll

\* await getIndexStatus(ticker) resolves inside pollStatus.
StatusResolved(currentStatus) ==
    /\ pc \in {"firstStatus", "status"}
    /\ currentStatus.status = "processing" => statusRequests < MaxPolls
    /\ responses' = Append(responses, currentStatus.status)
    /\ lastResponse' = currentStatus
    /\ status' = (IF mounted THEN currentStatus ELSE status)
    /\ IF IsComplete(currentStatus)
       THEN /\ timerInterval' = FALSE
            /\ onCompleteCalls' = onCompleteCalls + 1
            /\ UNCHANGED << onErrorCalls, onErrorArg >>
       ELSE IF IsError(currentStatus)
       THEN /\ timerInterval' = FALSE
            /\ onErrorCalls' = onErrorCalls + 1
            /\ onErrorArg' = ErrorMessage(currentStatus)
            /\ UNCHANGED onCompleteCalls
       ELSE /\ UNCHANGED timerInterval
            /\ UNCHANGED callbackVars
    /\ IF SchedulesPoll(currentStatus)
       THEN pc' = "timer" /\ pollTimers' = pollTimers + 1
       ELSE pc' = "done" /\ UNCHANGED pollTimers
    /\ UNCHANGED << startOutcome, startError, lastFailure >>
    /\ UNCHANGED componentVars
    /\ UNCHANGED << elapsedTime, cancelled, startRequests, statusRequests,
                    unhandled >>

StatusResolve(currentStatus) ==
    StatusResolved(currentStatus) /\ UNCHANGED outsidePoll

\* await getIndexStatus(ticker) rejects.  The first pollStatus call is
\* awaited inside the try block, so its rejection reaches the catch block;
\* a pollStatus call made by setTimeout is awaited by nobody.
StatusRejected(message) ==
    /\ pc \in {"firstStatus", "status"}
    /\ responses' = Append(responses, "rejected")
    /\ lastFailure' = message
    /\ IF pc = "firstStatus"
       THEN /\ Catch(message)
            /\ UNCHANGED unhandled
       ELSE /\ pc' = "done"
            /\ unhandled' = unhandled + 1
            /\ UNCHANGED timerInterval
            /\ UNCHANGED callbackVars
    /\ UNCHANGED << startOutcome, startError, lastResponse >>
    /\ UNCHANGED componentVars
    /\ UNCHANGED << status, elapsedTime, cancelled, startRequests,
                    statusRequests, pollTimers >>

StatusReject(message) ==
    StatusRejected(message) /\ UNCHANGED outsidePoll

\* Variant: setInterval in the place of setTimeout, a timer that stays set.
OneShot_Interval == FALSE

\* setTimeout: the timer fires once and is gone.
OneShot == TRUE

\* The 1-second timer set by setTimeout(pollStatus, 1000) fires.
PollTimerFire ==
    /\ pc = "timer"
    /\ pollTimers' = (IF OneShot THEN pollTimers - 1 ELSE pollTimers)
    /\ IF PollGuard
       THEN /\ pc' = "done"
            /\ UNCHANGED statusRequests
       ELSE /\ pc' = "status"
            /\ statusRequests' = statusRequests + 1
    /\ UNCHANGED historyVars
    /\ UNCHANGED componentVars
    /\ UNCHANGED callbackVars
    /\ UNCHANGED << status, elapsedTime, cancelled, timerInterval,
                    startRequests, unhandled >>
    /\ UNCHANGED outsidePoll

Next ==
    \/ RunEffect
    \/ PropsChange
    \/ Unmount
    \/ ElapsedTick
    \/ \E s \in StartStatuses : StartResolve(s)
    \/ \E m \in ErrMsgs : StartReject(m)
    \/ \E r \in IndexStatusValues : StatusResolve(r)
    \/ \E m \in ErrMsgs : StatusReject(m)
    \/ PollTimerFire

Spec == Init /\ [][Next]_vars

\* A session that its caller never tears down (no unmount, no change of
\* ticker, onComplete or onError), every request of which is answered, under
\* fair scheduling of the effect, the responses and the poll timer.
LiveNext ==
    \/ RunEffect
    \/ ElapsedTick
    \/ \E s \in StartStatuses : StartResolve(s)
    \/ \E r \in IndexStatusValues : StatusResolve(r)
    \/ PollTimerFire

SpecLive ==
    /\ Init
    /\ [][LiveNext]_vars
    /\ WF_vars(RunEffect)
    /\ WF_vars(\E s \in StartStatuses : StartResolve(s))
    /\ WF_vars(\E r \in IndexStatusValues : StatusResolve(r))
    /\ WF_vars(PollTimerFire)

\* =================================================================
\* streamChat: the SSE stream consumer of lib/api.ts
\* =================================================================

\* Bytes are tokens.  "LF" is the newline byte, "QUOTE" the double quote,
\* "C3" "A9" the two UTF-8 bytes of one character (decoded to "E9").
LF == "LF"
QUOTE == "QUOTE"
Digits == {"1", "2"}

\* The literal "data: ".
DataPrefix == <<"d", "a", "t", "a", ":", " ">>

DataLine(payload) == DataPrefix \o payload \o <<LF>>

\* The stream contents followed: well-formed frames, a malformed frame
\* between two well-formed ones, a multi-byte character, a blank line, a
\* payload with white space, a trailing frame without its newline, and
\* lines with other prefixes.
Contents ==
    { DataLine(<<"1">>) \o DataLine(<<"1", "2">>),
      DataLine(<<"1">>) \o DataLine(<<"x">>) \o DataLine(<<"2">>),
      DataLine(<<QUOTE, "C3", "A9", QUOTE>>) \o <<LF>> \o DataLine(<<" ", "2">>),
      DataLine(<<"1">>) \o DataPrefix \o <<"2">>,
      <<"d", "a", "t", "a", ":", "1", "1", LF>> \o DataLine(<<"2">>)
          \o <<":", "x", LF>> }

\* The lengths a chunk can have.
ChunkLengths ==
    1..(CHOOSE n \in 0..64 : /\ \E c \in Contents : Len(c) = n
                             /\ \A c \in Contents : Len(c) <= n)

\* TextDecoder.decode(value, { stream: true }): an incomplete character at
\* the end of a chunk is held back; an invalid byte becomes U+FFFD.
RECURSIVE Decode(_, _)
Decode(pending, bytes) ==
    IF bytes = <<>> THEN [text |-> <<>>, pending |-> pending]
    ELSE LET b == Head(bytes) IN
         IF pending = <<"C3">>
         THEN IF b = "A9"
              THEN LET r == Decode(<<>>, Tail(bytes))
                   IN  [text |-> <<"E9">> \o r.text, pending |-> r.pending]
              ELSE LET r == Decode(<<>>, bytes)
                   IN  [text |-> <<"FFFD">> \o r.text, pending |-> r.pending]
         ELSE IF b = "C3" THEN Decode(<<"C3">>, Tail(bytes))
         ELSE LET r == Decode(<<>>, Tail(bytes))
              IN  [text |-> <<(IF b = "A9" THEN "FFFD" ELSE b)>> \o r.text,
                   pending |-> r.pending]

\* buffer.split("\n"): at least one element, the last one is what follows
\* the last newline.
RECURSIVE SplitLines(_)
SplitLines(text) ==
    IF \A i \in DOMAIN text : text[i] # LF THEN <<text>>
    ELSE LET i == CHOOSE j \in DOMAIN text :
                      text[j] = LF /\ \A k \in 1..(j - 1) : text[k] # LF
         IN  <<SubSeq(text, 1, i - 1)>> \o SplitLines(SubSeq(text, i + 1, Len(text)))

\* Variant: the unfinished line is not carried over to the next chunk.
RetainedBuffer_Dropped(parts) == <<>>

\* Variant: the last complete line stays in the buffer with its newline.
RetainedBuffer_KeepsLine(parts) ==
    IF Len(parts) > 1
    THEN parts[Len(parts) - 1] \o <<LF>> \o parts[Len(parts)]
    ELSE parts[Len(parts)]

\* buffer = lines.pop() || ""
RetainedBuffer(parts) == parts[Len(parts)]

\* The lines left in the array after lines.pop().
CompleteLines(parts) == SubSeq(parts, 1, Len(parts) - 1)

\* Variant: the prefix tested without its trailing space.
StartsWithData_NoSpace(line) ==
    Len(line) >= 5 /\ SubSeq(line, 1, 5) = <<"d", "a", "t", "a", ":">>

\* line.startsWith("data: ")
StartsWithData(line) ==
    Len(line) >= Len(DataPrefix) /\ SubSeq(line, 1, Len(DataPrefix)) = DataPrefix

\* line.slice(6)
Payload(line) == SubSeq(line, 7, Len(line))

\* JSON white space is skipped on both sides of the value.
RECURSIVE TrimLeft(_)
TrimLeft(text) ==
    IF text # <<>> /\ Head(text) = " " THEN TrimLeft(Tail(text)) ELSE text

RECURSIVE TrimRight(_)
TrimRight(text) ==
    IF text # <<>> /\ text[Len(text)] = " "
    THEN TrimRight(SubSeq(text, 1, Len(text) - 1))
    ELSE text

RECURSIVE NumberValue(_)
NumberValue(digits) ==
    IF digits = <<>> THEN 0
    ELSE 10 * NumberValue(SubSeq(digits, 1, Len(digits) - 1))
         + (IF digits[Len(digits)] = "1" THEN 1 ELSE 2)

NoJson == [ok |-> FALSE, kind |-> "none", num |-> 0, str |-> <<>>]

\* JSON.parse on the values the contents use: a number (digits) or a
\* string (quoted characters); everything else is a SyntaxError (ok = FALSE).
JsonParse(text) ==
    LET t == TrimRight(TrimLeft(text)) IN
    IF t # <<>> /\ \A i \in DOMAIN t : t[i] \in Digits
    THEN [ok |-> TRUE, kind |-> "number", num |-> NumberValue(t), str |-> <<>>]
    ELSE IF /\ Len(t) >= 2
            /\ t[1] = QUOTE
            /\ t[Len(t)] = QUOTE
            /\ \A i \in 2..(Len(t) - 1) : t[i] \notin {QUOTE, LF}
    THEN [ok |-> TRUE, kind |-> "string", num |-> 0,
          str |-> SubSeq(t, 2, Len(t) - 1)]
    ELSE NoJson

\* Variant: a SyntaxError of JSON.parse is not caught.
OnInvalidJson_Throws == "throw"

\* catch { /* Skip invalid JSON */ }
OnInvalidJson == "skip"

\* Variant: the rest of the buffer is processed as a last line.
AtEnd_Flush(rest) == IF rest = <<>> THEN <<>> ELSE <<rest>>

\* if (done) break;  -- the lines processed when the source is done: none.
AtEnd(rest) == <<>>

\* What the body of the for loop yields for one line.
LineEvents(line) ==
    IF StartsWithData(line) /\ JsonParse(Payload(line)).ok
    THEN <<JsonParse(Payload(line))>>
    ELSE <<>>

RECURSIVE LinesEvents(_)
LinesEvents(ls) ==
    IF ls = <<>> THEN <<>> ELSE LineEvents(Head(ls)) \o LinesEvents(Tail(ls))

\* streamChat is called and the response body's reader obtained.
SseStart(c) ==
    /\ ssePc = "idle"
    /\ content' = c
    /\ ssePc' = "read"
    /\ UNCHANGED << ssePos, decoderPending, buffer, lines, events, sseError,
                    sseReads, midCuts, pulls >>
    /\ UNCHANGED outsideSse

\* await reader.read() delivers the next n bytes; the buffer is split.
SseRead(n) ==
    /\ ssePc = "read"
    /\ n \in 1..(Len(content) - ssePos)
    /\ LET decoded == Decode(decoderPending, SubSeq(content, ssePos + 1, ssePos + n))
           parts == SplitLines(buffer \o decoded.text)
       IN  /\ decoderPending' = decoded.pending
           /\ buffer' = RetainedBuffer(parts)
           /\ lines' = CompleteLines(parts)
           /\ ssePc' = (IF CompleteLines(parts) = <<>> THEN "read" ELSE "lines")
           /\ midCuts' = (IF RetainedBuffer(parts) # <<>> \/ decoded.pending # <<>>
                          THEN midCuts + 1 ELSE midCuts)
    /\ ssePos' = ssePos + n
    /\ sseReads' = sseReads + 1
    /\ UNCHANGED << content, events, sseError, pulls >>
    /\ UNCHANGED outsideSse

\* Variant: the generator runs on after a yield without waiting.
YieldSuspends_Never == FALSE

\* yield data: the generator hands the value to the consumer and stays
\* suspended until the consumer asks for the next value.
YieldSuspends == TRUE

\* One iteration of for (const line of lines), up to its yield if it has one.
SseLine ==
    /\ ssePc = "lines"
    /\ LET line == Head(lines) IN
       IF StartsWithData(line) /\ ~JsonParse(Payload(line)).ok
          /\ OnInvalidJson = "throw"
       THEN /\ ssePc' = "threw"
            /\ sseError' = "parse"
            /\ UNCHANGED << lines, events >>
       ELSE /\ events' = events \o LineEvents(line)
            /\ lines' = Tail(lines)
            /\ ssePc' = (IF LineEvents(line) # <<>> /\ YieldSuspends
                         THEN "yield"
                         ELSE IF Tail(lines) = <<>> THEN "read" ELSE "lines")
            /\ UNCHANGED sseError
    /\ UNCHANGED << content, ssePos, decoderPending, buffer, sseReads, midCuts,
                    pulls >>
    /\ UNCHANGED outsideSse

\* The consumer asks for the next value: the generator resumes after the
\* yield, with the next line or, after the last line, the next read.
SsePull ==
    /\ ssePc = "yield"
    /\ pulls' = pulls + 1
    /\ ssePc' = (IF lines = <<>> THEN "read" ELSE "lines")
    /\ UNCHANGED << content, ssePos, decoderPending, buffer, lines, events,
                    sseError, sseReads, midCuts >>
    /\ UNCHANGED outsideSse

\* await reader.read() reports done: the loop is left.
SseDone ==
    /\ ssePc = "read"
    /\ ssePos = Len(content)
    /\ events' = events \o LinesEvents(AtEnd(buffer))
    /\ ssePc' = "done"
    /\ UNCHANGED << content, ssePos, decoderPending, buffer, lines, sseError,
                    sseReads, midCuts, pulls >>
    /\ UNCHANGED outsideSse

\* await reader.read() rejects (the connection drops): streamChat throws.
SseReadFail ==
    /\ ssePc = "read"
    /\ ssePc' = "threw"
    /\ sseError' = "read"
    /\ UNCHANGED << content, ssePos, decoderPending, buffer, lines, events,
                    sseReads, midCuts, pulls >>
    /\ UNCHANGED outsideSse

SseNext ==
    \/ \E c \in Contents : SseStart(c)
    \/ \E n \in ChunkLengths : SseRead(n)
    \/ SseLine
    \/ SsePull
    \/ SseDone
    \/ SseReadFail

SpecSSE == Init /\ [][SseNext]_vars

\* =================================================================
\* fetchWithRetry and handleResponse (lib/api.ts)
\* =================================================================

\* Largest retry budget followed (the callers pass 0, 1 and 2).
MaxRetries == 2

TimeoutMessage ==
    <<"Request timed out.", "The server may be processing a large filing.",
      "Please wait and try again.">>

\* The errors an attempt can end with.
AbortError == [name |-> "AbortError", message |-> <<"The operation was aborted.">>,
               status |-> 0]
NetworkError == [name |-> "TypeError", message |-> <<"Failed to fetch">>,
                 status |-> 0]

HttpStatuses == {200, 404, 500}

\* Response bodies: not JSON, the JSON value null, an object without
\* detail, with an empty detail, with a detail text.
Bodies == {"notJson", "null", "noDetail", "emptyDetail", "detail"}

\* response.ok
Ok(code) == code >= 200 /\ code <= 299

Responses ==
    { r \in [ok : BOOLEAN, status : HttpStatuses, body : Bodies] :
        r.ok = Ok(r.status) }

\* Variant: every failed attempt is treated as a timeout.
IsTimeout_Always(error) == TRUE

\* if (lastError.name === 'AbortError')
IsTimeout(error) == error.name = "AbortError"

\* Variant: off by one in the retry test.
RetryAllowed_OffByOne(a, n) == a <= n

\* if (attempt < retries)
RetryAllowed(a, n) == a < n

\* Variant: a response with a non-success status is treated as a failed attempt.
AcceptsResponse_OnlyOk(resp) == resp.ok

\* const response = await fetch(...); clearTimeout(timeoutId); return response;
AcceptsResponse(resp) == TRUE

\* Variant: the timer is left set when fetch resolves.
ClearsOnResponse_Missing == FALSE

\* clearTimeout(timeoutId) after the await of fetch
ClearsOnResponse == TRUE

\* fetch(url, { ...options, signal: controller.signal }): the signal of the
\* caller's options is replaced, so fetch does not observe it.
FetchObservesCallerSignal == FALSE

\* response.json() of a body: whether it resolves, and the value.
BodyParses(body) == body # "notJson"

ParsedBody(body) ==
    [isNull |-> body = "null",
     hasDetail |-> body \in {"emptyDetail", "detail"},
     detail |-> IF body = "detail" THEN <<"Ticker", "not", "found">> ELSE <<>>]

\* new ApiError(status, message)
ApiError(code, text) ==
    [name |-> "ApiError", message |-> text, status |-> code]

\* handleResponse: the value returned (kind "value") or the error thrown.
HandleResponse(resp) ==
    IF ~resp.ok
    THEN LET error == IF BodyParses(resp.body)
                      THEN ParsedBody(resp.body)
                      ELSE [isNull |-> FALSE, hasDetail |-> TRUE,
                            detail |-> <<"Unknown error">>]
         IN  IF error.isNull
             THEN [kind |-> "throw",
                   error |-> [name |-> "TypeError",
                              message |-> <<"Cannot read properties of null">>,
                              status |-> 0]]
             ELSE [kind |-> "throw",
                   error |-> ApiError(resp.status,
                                      IF error.hasDetail /\ error.detail # <<>>
                                      THEN error.detail
                                      ELSE <<"Request failed">>)]
    ELSE IF BodyParses(resp.body)
         THEN [kind |-> "value", error |-> NoError]
         ELSE [kind |-> "throw",
               error |-> [name |-> "SyntaxError",
                          message |-> <<"Unexpected token">>, status |-> 0]]

\* The catch block of one attempt, entered with lastError: the attempt's
\* timer is cleared; a timeout is retried at once while the budget lasts, and
\* the next attempt sets a timer of its own; anything else is thrown.
AttemptCatch(lastError) ==
    IF IsTimeout(lastError)
    THEN IF RetryAllowed(attempt, retries)
         THEN /\ attempt' = attempt + 1
              /\ IF attempt + 1 <= retries
                 THEN /\ attemptsMade' = attemptsMade + 1
                      /\ timerArmed' =
                            (timerArmed \ {attempt}) \cup {attempt + 1}
                      /\ UNCHANGED << fetchPc, thrown >>
                 ELSE /\ fetchPc' = "threw"
                      /\ thrown' = lastError
                      /\ timerArmed' = timerArmed \ {attempt}
                      /\ UNCHANGED attemptsMade
         ELSE /\ fetchPc' = "threw"
              /\ thrown' = [name |-> "Error", message |-> TimeoutMessage,
                            status |-> 0]
              /\ timerArmed' = timerArmed \ {attempt}
              /\ UNCHANGED << attempt, attemptsMade >>
    ELSE /\ fetchPc' = "threw"
         /\ thrown' = lastError
         /\ timerArmed' = timerArmed \ {attempt}
         /\ UNCHANGED << attempt, attemptsMade >>

\* A caller (getAnalysis, getIndexStatus, ...) calls fetchWithRetry with a
\* retry budget n: the first attempt is issued and its deadline timer set.
FetchStart(n) ==
    /\ fetchPc = "idle"
    /\ retries' = n
    /\ attempt' = 0
    /\ attemptsMade' = 1
    /\ timerArmed' = {0}
    /\ fetchPc' = "fetching"
    /\ UNCHANGED << timedOut, failures, received, callerAborted, response, thrown >>
    /\ UNCHANGED outsideFetch

\* The deadline timer of the attempt fires: controller.abort() aborts the
\* attempt's own controller, and its fetch rejects with AbortError.
AttemptTimeout ==
    /\ fetchPc = "fetching"
    /\ attempt \in timerArmed
    /\ timedOut' = timedOut + 1
    /\ AttemptCatch(AbortError)
    /\ UNCHANGED << retries, failures, received, callerAborted, response >>
    /\ UNCHANGED outsideFetch

\* fetch rejects with another error (connection refused, DNS, network drop).
AttemptFails ==
    /\ fetchPc = "fetching"
    /\ failures' = failures + 1
    /\ AttemptCatch(NetworkError)
    /\ UNCHANGED << retries, timedOut, received, callerAborted, response >>
    /\ UNCHANGED outsideFetch

\* fetch resolves with a response: the timer is cleared and the response
\* returned to the caller, which passes it to handleResponse.
AttemptResponds(resp) ==
    /\ fetchPc = "fetching"
    /\ IF AcceptsResponse(resp)
       THEN /\ response' = resp
            /\ timerArmed' = (IF ClearsOnResponse
                              THEN timerArmed \ {attempt}
                              ELSE timerArmed)
            /\ fetchPc' = "body"
            /\ UNCHANGED << attempt, attemptsMade, thrown >>
       ELSE /\ AttemptCatch(AbortError)
            /\ UNCHANGED response
    /\ received' = received + 1
    /\ UNCHANGED << retries, timedOut, failures, callerAborted >>
    /\ UNCHANGED outsideFetch

\* handleResponse finishes: await response.json() has settled.
BodyRead ==
    /\ fetchPc = "body"
    /\ LET outcome == HandleResponse(response) IN
       IF outcome.kind = "value"
       THEN fetchPc' = "returned" /\ UNCHANGED thrown
       ELSE fetchPc' = "threw" /\ thrown' = outcome.error
    /\ UNCHANGED << retries, attempt, attemptsMade, timedOut, failures,
                    received, timerArmed, callerAborted, response >>
    /\ UNCHANGED outsideFetch

\* The caller aborts the signal it passed in the request options.
CallerAbort ==
    /\ fetchPc = "fetching"
    /\ ~callerAborted
    /\ callerAborted' = TRUE
    /\ IF FetchObservesCallerSignal
       THEN AttemptCatch(AbortError)
       ELSE UNCHANGED << attempt, attemptsMade, timerArmed, fetchPc, thrown >>
    /\ UNCHANGED << retries, timedOut, failures, received, response >>
    /\ UNCHANGED outsideFetch

FetchNext ==
    \/ \E n \in 0..MaxRetries : FetchStart(n)
    \/ AttemptTimeout
    \/ AttemptFails
    \/ \E r \in Responses : AttemptResponds(r)
    \/ BodyRead
    \/ CallerAbort

SpecFetch == Init /\ [][FetchNext]_vars

\* =================================================================
\* TickerSearch: the debounced search (components/ticker-search.tsx)
\* =================================================================

\* Largest number of searchCompanies calls followed.
MaxRequests == 3

\* Texts of the input, as sequences of characters: empty, one character
\* after trimming, a ticker, two company names (one with a trailing blank),
\* and six upper-case letters.
Queries ==
    { <<>>, <<"a", " ">>, <<"A", "A", "P", "L">>, <<"a", "p", "p">>,
      <<"m", "i", "c", " ">>, <<"A", "B", "C", "D", "E", "F">> }

UpperCaseLetters ==
    { "A", "B", "C", "D", "E", "F", "G", "H", "I", "J", "K", "L", "M", "N",
      "O", "P", "Q", "R", "S", "T", "U", "V", "W", "X", "Y", "Z" }

\* trimmed.length <= 5 && trimmed === trimmed.toUpperCase()
\*     && /^[A-Z]+$/.test(trimmed)
\* A text of the letters A-Z is its own upper case.
TickerLike(trimmed) ==
    /\ Len(trimmed) <= 5
    /\ trimmed # <<>>
    /\ \A i \in DOMAIN trimmed : trimmed[i] \in UpperCaseLetters

\* The two early returns of the effect.
SkipsSearch(trimmed) == TickerLike(trimmed) \/ Len(trimmed) < 2

\* onChange / handleSelect: setQuery(text), and the effect on [query] that
\* the commit runs: the cleanup of the previous run clears its timer, the
\* body clears the results or sets a timer of 300 ms.
SetQuery(text) ==
    /\ text # query
    /\ query' = text
    /\ LET trimmed == TrimRight(TrimLeft(text)) IN
       IF SkipsSearch(trimmed)
       THEN /\ results' = NoResults
            /\ showDropdown' = FALSE
            /\ debounceTimers' = {}
       ELSE /\ debounceTimers' = {trimmed}
            /\ UNCHANGED << results, showDropdown >>
    /\ UNCHANGED << isSearching, searchRequests >>
    /\ UNCHANGED outsideSearch

\* The timer fires 300 ms after it was set: setIsSearching(true) and the
\* call of searchCompanies(trimmed).
DebounceFire(trimmed) ==
    /\ trimmed \in debounceTimers
    /\ Len(searchRequests) < MaxRequests
    /\ debounceTimers' = debounceTimers \ {trimmed}
    /\ isSearching' = TRUE
    /\ searchRequests' = Append(searchRequests,
                                [trimmed |-> trimmed, pc |-> "awaiting"])
    /\ UNCHANGED << query, results, showDropdown >>
    /\ UNCHANGED outsideSearch

\* await searchCompanies(trimmed) resolves with a list of items results.
SearchResolve(r, items) ==
    /\ r \in DOMAIN searchRequests
    /\ searchRequests[r].pc = "awaiting"
    /\ results' = (IF items = 0
                   THEN NoResults
                   ELSE [items |-> items,
                         answers |-> searchRequests[r].trimmed])
    /\ showDropdown' = (items > 0)
    /\ isSearching' = FALSE
    /\ searchRequests' = [searchRequests EXCEPT ![r].pc = "resolved"]
    /\ UNCHANGED << query, debounceTimers >>
    /\ UNCHANGED outsideSearch

\* await searchCompanies(trimmed) rejects: the catch block.
SearchReject(r) ==
    /\ r \in DOMAIN searchRequests
    /\ searchRequests[r].pc = "awaiting"
    /\ results' = NoResults
    /\ showDropdown' = FALSE
    /\ isSearching' = FALSE
    /\ searchRequests' = [searchRequests EXCEPT ![r].pc = "rejected"]
    /\ UNCHANGED << query, debounceTimers >>
    /\ UNCHANGED outsideSearch

SearchNext ==
    \/ \E text \in Queries : SetQuery(text)
    \/ \E text \in Queries : DebounceFire(TrimRight(TrimLeft(text)))
    \/ \E r \in 1..MaxRequests, items \in 0..2 : SearchResolve(r, items)
    \/ \E r \in 1..MaxRequests : SearchReject(r)

SpecSearch == Init /\ [][SearchNext]_vars

\* =================================================================
\* ChatInterface: handleSend (components/chat-interface.tsx)
\* =================================================================

\* Largest number of accepted sends followed.
MaxSends == 2

Tickers == {"AAPL", "MSFT"}

\* Texts typed or clicked: empty, blank, and a question.
ChatInputs == { <<>>, <<" ">>, <<"Why", " ", "?">> }

\* Events as streamChat yields them.
ContentEvent(text) == [type |-> "content", data |-> text]
SourcesEvent == [type |-> "sources", data |-> <<"Item 1A">>]
ErrorEvent == [type |-> "error", data |-> <<"overloaded">>]
OtherEvent == [type |-> "done", data |-> <<>>]

\* The event sequences a stream may deliver; it may also end or fail
\* after any prefix of one.
Scripts ==
    { <<ContentEvent(<<"The ">>), ContentEvent(<<"company ">>),
        ContentEvent(<<"grew.">>)>>,
      <<SourcesEvent, ContentEvent(<<"The ">>), ContentEvent(<<"grew.">>)>>,
      <<ContentEvent(<<"The ">>), ErrorEvent, ContentEvent(<<"grew.">>)>>,
      <<OtherEvent, ErrorEvent>> }

\* Messages of the errors streamChat throws.
ChatErrors == { <<"Chat failed">>, <<"No response body">>, <<"Failed to fetch">> }

UserEntry(text) ==
    [role |-> "user", content |-> text, hasSources |-> FALSE, sources |-> <<>>]

\* { role: "assistant", content, sources }
AssistantEntry(text, srcs) ==
    [role |-> "assistant", content |-> text, hasSources |-> TRUE, sources |-> srcs]

\* { role: "assistant", content: `Error: ${...}` }
ErrorEntry(text) ==
    [role |-> "assistant", content |-> <<"Error: ">> \o text,
     hasSources |-> FALSE, sources |-> <<>>]

\* { role: "assistant", content: "" }
Placeholder ==
    [role |-> "assistant", content |-> <<>>, hasSources |-> FALSE, sources |-> <<>>]

\* Variant: the entry is appended instead of replacing the last one.
ReplaceLast_Appends(prev, entry) == Append(prev, entry)

\* const updated = [...prev]; updated[updated.length - 1] = entry.
\* On an empty array the assignment sets the property "-1", not an element.
ReplaceLast(prev, entry) ==
    IF prev = <<>> THEN prev ELSE [prev EXCEPT ![Len(prev)] = entry]

\* !message.trim()
IsBlank(text) == TrimRight(TrimLeft(text)) = <<>>

\* onChange: setInput(e.target.value)
TypeInput(text) ==
    /\ ~isStreaming
    /\ input # text
    /\ input' = text
    /\ UNCHANGED << chatTicker, isReady, messages, isStreaming, currentSources,
                    chatPc, fullContent, sources, script, delivered, sends,
                    lenBefore, fragments, lastEvent, resetDuringSend, overlapCall >>
    /\ UNCHANGED outsideChat

\* Variant: the guard does not look at isStreaming.
SendGuard_IgnoresStreaming(message) == IsBlank(message) \/ ~isReady

\* Variant: the guard does not look at isReady.
SendGuard_IgnoresReady(message) == IsBlank(message) \/ isStreaming

\* if (!message.trim() || isStreaming || !isReady) return;
\* The handler belongs to the last committed render: the updates of the
\* event that accepted a send are committed before the next event is
\* dispatched, so it reads the current isStreaming.
SendGuard(message) == IsBlank(message) \/ isStreaming \/ ~isReady

\* handleSend(message) up to its first await: the guard, the user entry,
\* the placeholder, and the call of streamChat.
HandleSend(message) ==
    /\ chatPc = "idle" => sends < MaxSends
    /\ IF SendGuard(message)
       THEN /\ overlapCall' = (overlapCall \/ chatPc # "idle")
            /\ UNCHANGED << chatTicker, isReady, messages, input, isStreaming,
                            currentSources, chatPc, fullContent, sources,
                            script, delivered, sends, lenBefore, fragments,
                            lastEvent, resetDuringSend >>
       ELSE /\ messages' = messages \o <<UserEntry(message), Placeholder>>
            /\ input' = <<>>
            /\ isStreaming' = TRUE
            /\ currentSources' = <<>>
            /\ fullContent' = <<>>
            /\ sources' = <<>>
            /\ chatPc' = "opening"
            /\ delivered' = 0
            /\ sends' = sends + 1
            /\ lenBefore' = Len(messages)
            /\ fragments' = <<>>
            /\ lastEvent' = "none"
            /\ resetDuringSend' = FALSE
            /\ overlapCall' = FALSE
            /\ UNCHANGED << chatTicker, isReady, script >>
    /\ UNCHANGED outsideChat

\* streamChat got a response with a body: the events start to arrive.
ChatOpen(sc) ==
    /\ chatPc = "opening"
    /\ script' = sc
    /\ chatPc' = "streaming"
    /\ UNCHANGED << chatTicker, isReady, messages, input, isStreaming,
                    currentSources, fullContent, sources, delivered, sends,
                    lenBefore, fragments, lastEvent, resetDuringSend, overlapCall >>
    /\ UNCHANGED outsideChat

\* One iteration of for await (const event of streamChat(...)).
ChatEvent ==
    /\ chatPc = "streaming"
    /\ delivered < Len(script)
    /\ LET event == script[delivered + 1] IN
       /\ delivered' = delivered + 1
       /\ lastEvent' = event.type
       /\ IF event.type = "sources"
          THEN /\ sources' = event.data
               /\ currentSources' = event.data
               /\ UNCHANGED << fullContent, messages, fragments >>
          ELSE IF event.type = "content"
          THEN /\ fullContent' = fullContent \o event.data
               /\ messages' = ReplaceLast(messages,
                                  AssistantEntry(fullContent \o event.data, sources))
               /\ fragments' = Append(fragments, event.data)
               /\ UNCHANGED << sources, currentSources >>
          ELSE IF event.type = "error"
          THEN /\ messages' = ReplaceLast(messages, ErrorEntry(event.data))
               /\ UNCHANGED << fullContent, sources, currentSources, fragments >>
          ELSE UNCHANGED << fullContent, sources, currentSources, messages,
                            fragments >>
    /\ UNCHANGED << chatTicker, isReady, input, isStreaming, chatPc, script,
                    sends, lenBefore, resetDuringSend, overlapCall >>
    /\ UNCHANGED outsideChat

\* The stream closes: the loop ends, finally sets isStreaming to false.
ChatStreamEnd ==
    /\ chatPc = "streaming"
    /\ isStreaming' = FALSE
    /\ chatPc' = "idle"
    /\ UNCHANGED << chatTicker, isReady, messages, input, currentSources,
                    fullContent, sources, script, delivered, sends, lenBefore,
                    fragments, lastEvent, resetDuringSend, overlapCall >>
    /\ UNCHANGED outsideChat

\* streamChat throws (no success status, no body, a failed read): the
\* catch block replaces the last entry, finally sets isStreaming to false.
ChatThrow(text) ==
    /\ chatPc \in {"opening", "streaming"}
    /\ messages' = ReplaceLast(messages, ErrorEntry(text))
    /\ isStreaming' = FALSE
    /\ chatPc' = "idle"
    /\ lastEvent' = "thrown"
    /\ UNCHANGED << chatTicker, isReady, input, currentSources, fullContent,
                    sources, script, delivered, sends, lenBefore, fragments,
                    resetDuringSend, overlapCall >>
    /\ UNCHANGED outsideChat

\* The page's handleSearch passes another ticker and leaves its "ready"
\* state: the effect on [ticker] resets the transcript and the input.
TickerChange(t) ==
    /\ t # chatTicker
    /\ chatTicker' = t
    /\ isReady' = FALSE
    /\ messages' = <<>>
    /\ input' = <<>>
    /\ resetDuringSend' = (resetDuringSend \/ chatPc # "idle")
    /\ UNCHANGED << isStreaming, currentSources, chatPc, fullContent,
                    sources, script, delivered, sends, lenBefore, fragments,
                    lastEvent, overlapCall >>
    /\ UNCHANGED outsideChat

\* The page passes another isReady (its state became or stopped being "ready").
ReadyChange ==
    /\ isReady' = ~isReady
    /\ UNCHANGED << chatTicker, messages, input, isStreaming, currentSources,
                    chatPc, fullContent, sources, script, delivered, sends,
                    lenBefore, fragments, lastEvent, resetDuringSend, overlapCall >>
    /\ UNCHANGED outsideChat

ChatNext ==
    \/ \E text \in ChatInputs : TypeInput(text)
    \/ \E text \in ChatInputs : HandleSend(text)
    \/ \E sc \in Scripts : ChatOpen(sc)
    \/ ChatEvent
    \/ ChatStreamEnd
    \/ \E text \in ChatErrors : ChatThrow(text)
    \/ \E t \in Tickers : TickerChange(t)
    \/ ReadyChange

SpecChat == Init /\ [][ChatNext]_vars

\* The chat with streams that end: every stream that was asked for closes
\* or throws at some time.
SpecChatLive ==
    /\ Init
    /\ [][ChatNext]_vars
    /\ WF_vars(ChatStreamEnd \/ \E text \in ChatErrors : ChatThrow(text))

\* =================================================================
\* Home: the page orchestrator (app/page.tsx)
\* =================================================================

\* Largest number of handleSearch calls followed.
MaxSearches == 2

SearchIds == 1..MaxSearches

\* Messages of rejected requests and of onError.
PageErrors == {"Failed to fetch", "Indexing failed"}

\* Promise.all([getCompany, getFinancials]) resolves.
BothSucceeded(s) ==
    s.companyData # PendingCompany /\ s.financialData # Pending

\* Variant: the branch is taken the other way round.
IsIndexed_Negated(companyData) == ~companyData.is_indexed

\* if (companyData.is_indexed)
IsIndexed(companyData) == companyData.is_indexed

\* Variant: the component stays mounted in every state.
Unmounted_Keeps(ss) == ss

\* {state === "indexing" && ticker && <IndexingStatus .../>}: a render with
\* another state unmounts the component.
Unmounted(ss) == [k \in DOMAIN ss |-> [ss[k] EXCEPT !.mounted = FALSE]]

IsMounted(ss) == \E k \in DOMAIN ss : ss[k].mounted

\* A render with state "indexing": the component is mounted with the page's
\* ticker unless it is mounted already.
Indexing(ss, t) ==
    IF IsMounted(ss) \/ t = ""
    THEN ss
    ELSE Append(ss, [ticker |-> t, mounted |-> TRUE, over |-> FALSE])

\* handleSearch(searchTicker) up to its await.
HandleSearch(searchTicker) ==
    /\ Len(searches) < MaxSearches
    /\ ticker' = searchTicker
    /\ state' = "loading"
    /\ pageError' = Null
    /\ company' = NoCompany
    /\ financials' = Null
    /\ analysis' = Null
    /\ searches' = Append(searches, [ticker |-> searchTicker, pc |-> "base",
                                     companyData |-> PendingCompany,
                                     financialData |-> Pending])
    /\ sessions' = Unmounted(sessions)
    /\ UNCHANGED << completions, analysisRequests, jobStarts >>
    /\ UNCHANGED outsidePage

\* handleSearch after the await of Promise.all: both values are stored and
\* the branch on is_indexed is taken.  A mounted IndexingStatus runs its
\* effect, which issues the job-start request.
AfterBase(i, s) ==
    /\ company' = s.companyData
    /\ financials' = s.financialData
    /\ IF IsIndexed(s.companyData)
       THEN /\ state' = "analyzing"
            /\ searches' = [searches EXCEPT ![i] = [s EXCEPT !.pc = "analysis"]]
            /\ analysisRequests' = analysisRequests + 1
            /\ sessions' = Unmounted(sessions)
            /\ UNCHANGED jobStarts
       ELSE /\ state' = "indexing"
            /\ searches' = [searches EXCEPT ![i] = [s EXCEPT !.pc = "done"]]
            /\ sessions' = Indexing(sessions, ticker)
            /\ jobStarts' = jobStarts + Len(Indexing(sessions, ticker))
                                      - Len(sessions)
            /\ UNCHANGED analysisRequests
    /\ UNCHANGED << ticker, analysis, pageError, completions >>

\* getCompany(searchTicker) resolves.
CompanyResolve(i, indexed) ==
    /\ i \in DOMAIN searches
    /\ searches[i].pc = "base"
    /\ searches[i].companyData = PendingCompany
    /\ LET s == [searches[i] EXCEPT !.companyData =
                    [ticker |-> searches[i].ticker, is_indexed |-> indexed]]
       IN  IF BothSucceeded(s)
           THEN AfterBase(i, s)
           ELSE /\ searches' = [searches EXCEPT ![i] = s]
                /\ UNCHANGED << state, ticker, company, financials, analysis,
                                pageError, completions, sessions,
                                analysisRequests, jobStarts >>
    /\ UNCHANGED outsidePage

\* getFinancials(searchTicker) resolves.
FinancialsResolve(i) ==
    /\ i \in DOMAIN searches
    /\ searches[i].pc = "base"
    /\ searches[i].financialData = Pending
    /\ LET s == [searches[i] EXCEPT !.financialData = searches[i].ticker]
       IN  IF BothSucceeded(s)
           THEN AfterBase(i, s)
           ELSE /\ searches' = [searches EXCEPT ![i] = s]
                /\ UNCHANGED << state, ticker, company, financials, analysis,
                                pageError, completions, sessions,
                                analysisRequests, jobStarts >>
    /\ UNCHANGED outsidePage

\* getCompany or getFinancials rejects: Promise.all rejects, the catch block.
BaseReject(i, message) ==
    /\ i \in DOMAIN searches
    /\ searches[i].pc = "base"
    /\ pageError' = message
    /\ state' = "error"
    /\ searches' = [searches EXCEPT ![i].pc = "failed"]
    /\ sessions' = Unmounted(sessions)
    /\ UNCHANGED << ticker, company, financials, analysis, completions,
                    analysisRequests, jobStarts >>
    /\ UNCHANGED outsidePage

\* getAnalysis(searchTicker) resolves in handleSearch.
SearchAnalysisResolve(i) ==
    /\ i \in DOMAIN searches
    /\ searches[i].pc = "analysis"
    /\ analysis' = searches[i].ticker
    /\ state' = "ready"
    /\ searches' = [searches EXCEPT ![i].pc = "done"]
    /\ sessions' = Unmounted(sessions)
    /\ UNCHANGED << ticker, company, financials, pageError, completions,
                    analysisRequests, jobStarts >>
    /\ UNCHANGED outsidePage

\* getAnalysis(searchTicker) rejects in handleSearch: the catch block.
SearchAnalysisReject(i, message) ==
    /\ i \in DOMAIN searches
    /\ searches[i].pc = "analysis"
    /\ pageError' = message
    /\ state' = "error"
    /\ searches' = [searches EXCEPT ![i].pc = "failed"]
    /\ sessions' = Unmounted(sessions)
    /\ UNCHANGED << ticker, company, financials, analysis, completions,
                    analysisRequests, jobStarts >>
    /\ UNCHANGED outsidePage

\* An IndexingStatus session invokes onComplete: handleIndexComplete up to
\* its await.  The session may have been unmounted in the meantime.  The call
\* is recorded with the number of handleSearch calls made before it.
SessionComplete(k) ==
    /\ k \in DOMAIN sessions
    /\ ~sessions[k].over
    /\ sessions' = [Unmounted(sessions) EXCEPT ![k].over = TRUE]
    /\ state' = "analyzing"
    /\ analysisRequests' = analysisRequests + 1
    /\ completions' = Append(completions,
                             [ticker |-> sessions[k].ticker, pc |-> "analysis",
                              searchesBefore |-> Len(searches)])
    /\ UNCHANGED << ticker, company, financials, analysis, pageError, searches,
                    jobStarts >>
    /\ UNCHANGED outsidePage

\* An IndexingStatus session invokes onError: handleIndexError.
SessionError(k, message) ==
    /\ k \in DOMAIN sessions
    /\ ~sessions[k].over
    /\ sessions' = [Unmounted(sessions) EXCEPT ![k].over = TRUE]
    /\ pageError' = message
    /\ state' = "error"
    /\ UNCHANGED << ticker, company, financials, analysis, searches,
                    completions, analysisRequests, jobStarts >>
    /\ UNCHANGED outsidePage

\* getAnalysis(ticker) resolves in handleIndexComplete.
CompleteAnalysisResolve(j) ==
    /\ j \in DOMAIN completions
    /\ completions[j].pc = "analysis"
    /\ analysis' = completions[j].ticker
    /\ state' = "ready"
    /\ completions' = [completions EXCEPT ![j].pc = "done"]
    /\ sessions' = Unmounted(sessions)
    /\ UNCHANGED << ticker, company, financials, pageError, searches,
                    analysisRequests, jobStarts >>
    /\ UNCHANGED outsidePage

\* getAnalysis(ticker) rejects in handleIndexComplete: the catch block.
CompleteAnalysisReject(j, message) ==
    /\ j \in DOMAIN completions
    /\ completions[j].pc = "analysis"
    /\ pageError' = message
    /\ state' = "error"
    /\ completions' = [completions EXCEPT ![j].pc = "failed"]
    /\ sessions' = Unmounted(sessions)
    /\ UNCHANGED << ticker, company, financials, analysis, searches,
                    analysisRequests, jobStarts >>
    /\ UNCHANGED outsidePage

PageNext ==
    \/ \E t \in Tickers : HandleSearch(t)
    \/ \E i \in SearchIds, indexed \in BOOLEAN : CompanyResolve(i, indexed)
    \/ \E i \in SearchIds : FinancialsResolve(i)
    \/ \E i \in SearchIds, m \in PageErrors : BaseReject(i, m)
    \/ \E i \in SearchIds : SearchAnalysisResolve(i)
    \/ \E i \in SearchIds, m \in PageErrors : SearchAnalysisReject(i, m)
    \/ \E k \in SearchIds : SessionComplete(k)
    \/ \E k \in SearchIds, m \in PageErrors : SessionError(k, m)
    \/ \E j \in SearchIds : CompleteAnalysisResolve(j)
    \/ \E j \in SearchIds, m \in PageErrors : CompleteAnalysisReject(j, m)

SpecPage == Init /\ [][PageNext]_vars

\* =================================================================
\* The polling session with its status checks run by fetchWithRetry
\* =================================================================

\* Variant: status checks are retried.
StatusRetries_Some == MaxRetries - 1

\* getIndexStatus: fetchWithRetry(url, options, 10000, 0)
StatusRetries == 0

\* pollStatus calls getIndexStatus, which calls fetchWithRetry.
GetIndexStatus ==
    /\ pc \in {"firstStatus", "status"}
    /\ FetchStart(StatusRetries)

\* The call of fetchWithRetry and handleResponse is over: nothing of it is
\* left, and the next status check starts a call of its own.
CallOver ==
    /\ retries' = 0
    /\ attempt' = 0
    /\ attemptsMade' = 0
    /\ timedOut' = 0
    /\ failures' = 0
    /\ received' = 0
    /\ timerArmed' = {}
    /\ callerAborted' = FALSE
    /\ response' = NoResponse
    /\ fetchPc' = "idle"
    /\ thrown' = NoError

\* getIndexStatus returns the parsed body to pollStatus.
StatusReturns(currentStatus) ==
    /\ fetchPc = "returned"
    /\ StatusResolved(currentStatus)
    /\ CallOver
    /\ UNCHANGED << sseVars, chatVars, pageVars, searchVars >>

\* getIndexStatus throws what fetchWithRetry or handleResponse threw.
StatusThrows ==
    /\ fetchPc = "threw"
    /\ StatusRejected(thrown.message)
    /\ CallOver
    /\ UNCHANGED << sseVars, chatVars, pageVars, searchVars >>

StatusCheckNext ==
    \/ RunEffect
    \/ PropsChange
    \/ Unmount
    \/ ElapsedTick
    \/ \E s \in StartStatuses : StartResolve(s)
    \/ \E m \in ErrMsgs : StartReject(m)
    \/ PollTimerFire
    \/ GetIndexStatus
    \/ AttemptTimeout
    \/ AttemptFails
    \/ \E r \in Responses : AttemptResponds(r)
    \/ BodyRead
    \/ \E r \in IndexStatusValues : StatusReturns(r)
    \/ StatusThrows

SpecStatusCheck == Init /\ [][StatusCheckNext]_vars

\* ------------------------------------------------------------- properties

Last(seq) == seq[Len(seq)]

\* The session was started by a successful indexCompany call.
StartSucceeded == startOutcome \in StartStatuses

\* The session has observed a terminal status or reported a failure.
Terminal ==
    \/ \E i \in DOMAIN responses : responses[i] \in {"complete", "error"}
    \/ onErrorCalls > 0

NumProcessing ==
    Cardinality({ i \in DOMAIN responses : responses[i] = "processing" })

\* k responses "processing" followed by one response "complete".
ProcessingThenComplete ==
    /\ responses # <<>>
    /\ Last(responses) = "complete"
    /\ \A i \in 1..(Len(responses) - 1) : responses[i] = "processing"

\* C1: once the cleanup has set cancelled, no step of the session invokes
\* onComplete or onError any more.
C1_NoCallbackAfterCancel ==
    [][cancelled => /\ onCompleteCalls' = onCompleteCalls
                    /\ onErrorCalls' = onErrorCalls]_vars

\* C2: one session invokes onComplete and onError at most once in total.
C2_AtMostOneTerminalCallback == onCompleteCalls + onErrorCalls <= 1

C2_Witness ==
    /\ Len(responses) >= 2
    /\ pc = "done"
    /\ onCompleteCalls + onErrorCalls = 1

\* C3: after a terminal status was observed or a failure was reported, no
\* step issues a status request or leaves a poll timer or request pending.
C3_TerminalAbsorbing ==
    [][Terminal => /\ statusRequests' = statusRequests
                   /\ pc' \notin {"firstStatus", "status", "timer"}]_vars

C3_Witness ==
    /\ Terminal
    /\ ~cancelled
    /\ Len(responses) >= 2
    /\ pc = "done"

\* C4: never cancelled, start succeeded, k responses "processing" and then
\* "complete": exactly k+1 status requests, exactly one onComplete, made by
\* the (k+1)-th response and not earlier, and no onError.
C4_CompleteAfterKPolls ==
    /\ (~cancelled /\ StartSucceeded /\ ProcessingThenComplete)
          => /\ statusRequests = Len(responses)
             /\ onCompleteCalls = 1
             /\ onErrorCalls = 0
    /\ (~cancelled /\ StartSucceeded /\ NumProcessing = Len(responses))
          => onCompleteCalls = 0

C4_Witness ==
    /\ ~cancelled
    /\ startOutcome = "started"
    /\ responses = <<"processing", "processing", "complete">>
    /\ statusRequests = 3
    /\ onCompleteCalls = 1

\* C5: never cancelled, a status response "error": onError exactly once with
\* the response's message (the fallback when it has none), no onComplete,
\* and no status request afterwards.
ErrorObserved == ~cancelled /\ responses # <<>> /\ Last(responses) = "error"

C5_ErrorStatusReported ==
    /\ [](ErrorObserved =>
            /\ onErrorCalls = 1
            /\ onErrorArg = (IF lastResponse.hasMessage /\ Len(lastResponse.message) > 0
                             THEN lastResponse.message
                             ELSE <<"Indexing failed">>)
            /\ onCompleteCalls = 0
            /\ pc = "done")
    /\ [][ErrorObserved => statusRequests' = statusRequests]_vars

C5_Witness ==
    /\ ErrorObserved
    /\ Len(responses) >= 2
    /\ ~lastResponse.hasMessage
    /\ onErrorArg = <<"Indexing failed">>

\* C6: never cancelled, a status request rejects (the first one or a later
\* one): onError exactly once with the failure's message, polling stops.
C6_StatusFailureReported ==
    (~cancelled /\ responses # <<>> /\ Last(responses) = "rejected")
        => /\ onErrorCalls = 1
           /\ onErrorArg = lastFailure
           /\ pc = "done"

\* C7: a start response that says the job is already finished invokes
\* onComplete and issues no status request.
C7_AlreadyDoneSkipsPolling ==
    startOutcome \in {"already_done", "done"}
        => /\ statusRequests = 0
           /\ (~cancelled => onCompleteCalls = 1)

C9_ProcessingRepolls ==
    /\ []((~cancelled /\ StartSucceeded)
            => statusRequests
                 = 1 + NumProcessing - (IF pc = "timer" THEN 1 ELSE 0))
    /\ [][(~cancelled' /\ statusRequests >= 1 /\ statusRequests' # statusRequests)
            => /\ pc = "timer"
               /\ Last(responses) = "processing"
               /\ statusRequests' = statusRequests + 1
               /\ pc' = "status"]_vars
    /\ [][(~cancelled /\ Len(responses') > Len(responses)
            /\ Last(responses') = "processing") => pc' = "timer"]_vars

C9_Witness ==
    /\ ~cancelled
    /\ NumProcessing = 2
    /\ statusRequests = 3
    /\ pc = "status"

\* C10: after the cleanup no status request is issued: a poll timer that
\* fires after it ends the session without a request and without a timer.
C10_NoRequestAfterCancel ==
    [][cancelled => /\ statusRequests' = statusRequests
                    /\ (pc = "timer" /\ pc' # pc) => pc' = "done"]_vars

C10_Witness ==
    /\ cancelled
    /\ pc = "done"
    /\ responses # <<>>
    /\ Last(responses) = "processing"
    /\ statusRequests = Len(responses)

\* ----------------------------------------------- properties of streamChat

\* The whole content decoded at once.
DecodedText == Decode(<<>>, content).text

\* The events of the newline-terminated lines of a text that begin with
\* "data: " and whose remainder parses as JSON, in order.
IsDataFrame(line) ==
    /\ Len(line) >= 6
    /\ <<line[1], line[2], line[3], line[4], line[5], line[6]>>
          = <<"d", "a", "t", "a", ":", " ">>
    /\ JsonParse(SubSeq(line, 7, Len(line))).ok

RECURSIVE RefEvents(_)
RefEvents(text) ==
    IF \A i \in DOMAIN text : text[i] # "LF" THEN <<>>
    ELSE LET i == CHOOSE j \in DOMAIN text :
                      text[j] = "LF" /\ \A k \in 1..(j - 1) : text[k] # "LF"
             line == SubSeq(text, 1, i - 1)
         IN  (IF IsDataFrame(line)
              THEN <<JsonParse(SubSeq(line, 7, Len(line)))>>
              ELSE <<>>)
             \o RefEvents(SubSeq(text, i + 1, Len(text)))

\* What follows the last newline of a text.
RECURSIVE Unterminated(_)
Unterminated(text) ==
    IF text = <<>> \/ text[Len(text)] = "LF" THEN <<>>
    ELSE Append(Unterminated(SubSeq(text, 1, Len(text) - 1)), text[Len(text)])

NumberEvent(n) == [ok |-> TRUE, kind |-> "number", num |-> n, str |-> <<>>]

\* C11: however the content is cut into chunks, the events yielded are
\* those yielded when the whole content arrives as one chunk.
C11_ChunkingInvariance ==
    ssePc = "done"
        => events = LinesEvents(CompleteLines(SplitLines(DecodedText)))

C11_Witness ==
    /\ ssePc = "done"
    /\ sseReads >= 4
    /\ midCuts >= 3
    /\ Len(events) = 2

\* C12: the end of the stream yields nothing: a trailing "data: ..." frame
\* without its newline never becomes an event.
C12_TrailingFrameDropped ==
    /\ [][(ssePc # "done" /\ ssePc' = "done") => events' = events]_vars
    /\ []((ssePc = "done" /\ IsDataFrame(Unterminated(DecodedText)))
            => Len(events) = Len(RefEvents(DecodedText)))

C12_Witness ==
    /\ ssePc = "done"
    /\ IsDataFrame(Unterminated(DecodedText))
    /\ buffer = <<"d", "a", "t", "a", ":", " ", "2">>
    /\ events = <<NumberEvent(1)>>

\* C13: a "data: " line whose payload is not JSON is skipped: the stream
\* goes on, nothing is thrown, the frames around it are yielded in order.
MalformedLine(line) == StartsWithData(line) /\ ~JsonParse(Payload(line)).ok

MalformedContent == DataLine(<<"1">>) \o DataLine(<<"x">>) \o DataLine(<<"2">>)

C13_MalformedFrameSkipped ==
    /\ [](sseError # "parse")
    /\ [][(ssePc = "lines" /\ MalformedLine(Head(lines)))
            => /\ events' = events
               /\ lines' = Tail(lines)
               /\ ssePc' \in {"read", "lines"}]_vars
    /\ []((ssePc = "done" /\ content = MalformedContent)
            => events = <<NumberEvent(1), NumberEvent(2)>>)

C13_Witness ==
    /\ ssePc = "done"
    /\ content = MalformedContent
    /\ sseReads >= 2
    /\ events = <<NumberEvent(1), NumberEvent(2)>>

\* C14: the events yielded are, in order and one per line, the JSON values
\* of the newline-terminated lines that begin with "data: " and whose
\* remainder parses; every other line yields nothing.
C14_EventsAreDataFrames ==
    /\ ssePc = "done" => events = RefEvents(DecodedText)
    /\ ssePc \in {"read", "lines", "yield"}
          => Len(events) <= Len(RefEvents(DecodedText))

C14_Witness ==
    /\ ssePc = "done"
    /\ content[6] = "1"
    /\ sseReads >= 2
    /\ events = <<NumberEvent(2)>>

\* ----------------------- properties of fetchWithRetry and handleResponse

\* The request is over: a value was returned or an error thrown.
FetchOver == fetchPc \in {"returned", "threw"}

\* C15: with budget N and every attempt ending in a deadline timeout there
\* are exactly N+1 attempts, each retry issued in the step that handles the
\* timeout, and the call fails with the timeout message.
C15_TimeoutsExhaustBudget ==
    /\ []((fetchPc = "threw" /\ failures = 0 /\ received = 0)
            => /\ attemptsMade = retries + 1
               /\ timedOut = retries + 1
               /\ thrown.name = "Error"
               /\ thrown.message
                    = <<"Request timed out.",
                        "The server may be processing a large filing.",
                        "Please wait and try again.">>)
    /\ []((fetchPc = "fetching" /\ failures = 0 /\ received = 0)
            => attemptsMade = timedOut + 1 /\ timedOut <= retries)
    /\ [][(timedOut' = timedOut + 1 /\ fetchPc' = "fetching")
            => attemptsMade' = attemptsMade + 1]_vars

C15_Witness ==
    /\ fetchPc = "threw"
    /\ retries = 2
    /\ timedOut = 3
    /\ attemptsMade = 3
    /\ failures = 0

\* C16: an attempt that fails with another error than the deadline timeout
\* ends the call at once with that error, whatever budget remains.
C16_OtherFailureNotRetried ==
    /\ [][failures' # failures
            => /\ attemptsMade' = attemptsMade
               /\ fetchPc' = "threw"
               /\ thrown'.name = "TypeError"
               /\ thrown'.message = <<"Failed to fetch">>]_vars
    /\ [](failures > 0 => fetchPc = "threw" /\ attemptsMade = timedOut + 1)

C16_Witness ==
    /\ fetchPc = "threw"
    /\ retries = 2
    /\ timedOut = 1
    /\ failures = 1
    /\ attemptsMade = 2

\* C17: a request whose caller aborted it is not retried, and it ends with an
\* outcome that is not the executor's timeout failure.
C17_CallerAbortNotRetried ==
    /\ [][callerAborted => attemptsMade' = attemptsMade]_vars
    /\ []((callerAborted /\ fetchPc = "threw" /\ received = 0)
            => thrown.message # TimeoutMessage)

\* C18: handleResponse on a non-success response always throws an ApiError
\* with the response's status; its message is the body's detail when there
\* is a non-empty one, "Unknown error" when the body does not parse.
C18_NonSuccessIsApiError ==
    (FetchOver /\ response # NoResponse /\ ~response.ok)
        => /\ fetchPc = "threw"
           /\ thrown.name = "ApiError"
           /\ thrown.status = response.status
           /\ (response.body = "detail"
                 => thrown.message = <<"Ticker", "not", "found">>)
           /\ (response.body = "notJson"
                 => thrown.message = <<"Unknown error">>)

\* C19: once an attempt received an HTTP response no further attempt is
\* made; a non-success status and a success body that does not parse both
\* end the request with a failure.
C19_ResponseEndsAttempts ==
    /\ [][received' # received
            => attemptsMade' = attemptsMade /\ fetchPc' = "body"]_vars
    /\ [][received > 0 => attemptsMade' = attemptsMade]_vars
    /\ []((FetchOver /\ received > 0
             /\ (~response.ok \/ response.body = "notJson"))
            => fetchPc = "threw")

C19_Witness ==
    /\ fetchPc = "threw"
    /\ retries = 2
    /\ attemptsMade = 1
    /\ response.status = 500
    /\ thrown.name = "ApiError"

\* ------------------------------------------------ properties of handleSend

RECURSIVE Concatenation(_)
Concatenation(texts) ==
    IF texts = <<>> THEN <<>> ELSE Head(texts) \o Concatenation(Tail(texts))

\* A content event was the last thing delivered to the send under way.
ContentDelivered == chatPc = "streaming" /\ lastEvent = "content"

\* The transcript is the one before the send plus a user entry plus one
\* assistant entry holding the concatenation of the fragments.
Accumulated ==
    /\ Len(messages) = lenBefore + 2
    /\ messages[Len(messages) - 1].role = "user"
    /\ messages[Len(messages)].role = "assistant"
    /\ messages[Len(messages)].content = Concatenation(fragments)

\* C20 as stated: after the content events f1..fk of one accepted send the
\* last entry is one assistant entry holding f1+...+fk and the transcript is
\* two entries longer than before the send.
C20_ContentAccumulates == ContentDelivered => Accumulated

\* C20 as amended: the same, for a send during which the ticker does not
\* change (a ticker change empties the transcript while the stream goes on).
C20_ContentAccumulatesUnlessReset ==
    (ContentDelivered /\ ~resetDuringSend) => Accumulated

C20_Witness ==
    /\ ContentDelivered
    /\ ~resetDuringSend
    /\ lenBefore = 2
    /\ fragments = << <<"The ">>, <<"company ">>, <<"grew.">> >>
    /\ Len(messages) = 4
    /\ messages[4].content = <<"The ", "company ", "grew.">>

\* A send is under way: its stream has neither completed nor failed.
SendActive == chatPc # "idle"

BasePassed(i) ==
    /\ i \in DOMAIN searches
    /\ searches[i].pc = "base"
    /\ searches'[i].pc \in {"analysis", "done"}

\* The handleSearch call i fails in its base fetch in this step.
BaseFailed(i) ==
    /\ i \in DOMAIN searches
    /\ searches[i].pc = "base"
    /\ searches'[i].pc = "failed"

\* C22: handleSearch goes on to 'analyzing' or 'indexing' only when both
\* getCompany and getFinancials have succeeded; when either fails no analysis
\* request and no indexing session is started, state becomes 'error', and
\* company and financials are both null.
C22_BaseFetchGate ==
    /\ [][\A i \in SearchIds :
            BasePassed(i)
                => /\ searches'[i].companyData # PendingCompany
                   /\ searches'[i].financialData # Pending
                   /\ state' \in {"analyzing", "indexing"}]_vars
    /\ [][\A i \in SearchIds :
            BaseFailed(i)
                => /\ state' = "error"
                   /\ analysisRequests' = analysisRequests
                   /\ jobStarts' = jobStarts
                   /\ sessions' = Unmounted(sessions)
                   /\ company' = NoCompany
                   /\ financials' = Null]_vars

\* A polling session invokes onComplete in this step.
OnCompleteInvoked ==
    \E k \in SearchIds :
        /\ k \in DOMAIN sessions
        /\ ~sessions[k].over
        /\ sessions'[k].over
        /\ Len(completions') = Len(completions) + 1

\* C23: a call whose company has is_indexed = true requests the analysis
\* directly and issues no job-start request (state becomes 'analyzing', not
\* 'indexing'); a call whose company has is_indexed = false requests no
\* analysis: every other getAnalysis request is issued in a step in which a
\* polling session invokes onComplete.
C23_IndexedBranch ==
    /\ [][\A i \in SearchIds :
            (BasePassed(i) /\ searches'[i].companyData.is_indexed)
                => /\ state' = "analyzing"
                   /\ analysisRequests' = analysisRequests + 1
                   /\ jobStarts' = jobStarts
                   /\ ~IsMounted(sessions')]_vars
    /\ [][\A i \in SearchIds :
            (BasePassed(i) /\ ~searches'[i].companyData.is_indexed)
                => /\ state' = "indexing"
                   /\ analysisRequests' = analysisRequests]_vars
    /\ [][analysisRequests' # analysisRequests
            => \/ \E i \in SearchIds :
                    BasePassed(i) /\ searches'[i].companyData.is_indexed
               \/ OnCompleteInvoked]_vars
    /\ [][jobStarts' # jobStarts
            => \E i \in SearchIds :
                    BasePassed(i) /\ ~searches'[i].companyData.is_indexed]_vars

C23_Witness ==
    /\ Len(searches) = 2
    /\ searches[1].pc = "done" /\ ~searches[1].companyData.is_indexed
    /\ searches[2].pc = "analysis" /\ searches[2].companyData.is_indexed
    /\ Len(completions) = 1
    /\ jobStarts = 1
    /\ analysisRequests = 2

\* A stage after the base fetch fails in this step: getAnalysis rejects in
\* handleSearch or in handleIndexComplete, or a session invokes onError.
LaterStageFailed ==
    \/ \E i \in SearchIds :
          /\ i \in DOMAIN searches
          /\ searches[i].pc = "analysis"
          /\ searches'[i].pc = "failed"
    \/ \E j \in SearchIds :
          /\ j \in DOMAIN completions
          /\ completions[j].pc = "analysis"
          /\ completions'[j].pc = "failed"
    \/ \E k \in SearchIds :
          /\ k \in DOMAIN sessions
          /\ ~sessions[k].over
          /\ sessions'[k].over
          /\ completions' = completions

\* C24: when a stage after the base fetch fails, state becomes 'error' with
\* an error message, company and financials keep their values, no request
\* is issued and no polling session stays mounted; the failed call and the
\* session that reported do nothing afterwards.
C24_LaterFailureKeepsData ==
    /\ [][LaterStageFailed
            => /\ state' = "error"
               /\ pageError' # Null
               /\ company' = company
               /\ financials' = financials
               /\ analysisRequests' = analysisRequests
               /\ jobStarts' = jobStarts
               /\ ~IsMounted(sessions')]_vars
    /\ [][\A i \in SearchIds :
            (i \in DOMAIN searches /\ searches[i].pc = "failed")
                => searches'[i] = searches[i]]_vars
    /\ [][\A j \in SearchIds :
            (j \in DOMAIN completions /\ completions[j].pc = "failed")
                => completions'[j] = completions[j]]_vars
    /\ [][\A k \in SearchIds :
            (k \in DOMAIN sessions /\ sessions[k].over)
                => sessions'[k].over]_vars

C24_Witness ==
    /\ state = "error"
    /\ pageError = "Indexing failed"
    /\ company = [ticker |-> "AAPL", is_indexed |-> FALSE]
    /\ financials = "AAPL"
    /\ Len(sessions) = 1
    /\ sessions[1].over
    /\ completions = <<>>

\* -------------------------------------- properties of streamChat's pauses

\* C25: a chunk is read only when every line of the earlier chunks has been
\* processed and the consumer has taken, and asked beyond, every event
\* yielded so far.
C25_NoReadAhead ==
    /\ [][sseReads' # sseReads
            => /\ lines = <<>>
               /\ pulls = Len(events)]_vars
    /\ [](ssePc = "read" => lines = <<>> /\ pulls = Len(events))
    /\ [](pulls <= Len(events) /\ Len(events) <= pulls + 1)

\* Two chunks cut at line ends, one event in each: the second chunk was
\* read after the consumer had taken the first event.
C25_Witness ==
    /\ sseReads = 2
    /\ midCuts = 0
    /\ pulls = 1
    /\ Len(events) = 2
    /\ ssePc = "yield"

\* The generator is suspended: at an await of a chunk or at a yield.
Suspended == ssePc \in {"read", "yield"}

\* C26: whenever streamChat is suspended the buffer holds no newline: it is
\* the one trailing fragment that no newline has terminated yet.
C26_BufferHasNoNewline ==
    Suspended => \A k \in DOMAIN buffer : buffer[k] # LF

C26_Witness ==
    /\ ssePc = "yield"
    /\ buffer # <<>>
    /\ Len(events) = 1
    /\ lines # <<>>

\* ---------------------------------------- properties of the status checks

\* The status check under way ends in this step with the timeout failure.
StatusTimedOut ==
    /\ pc \in {"firstStatus", "status"}
    /\ fetchPc = "threw"
    /\ thrown.message = TimeoutMessage
    /\ pc' # pc

\* C27 as stated: a status check whose attempt times out is retried, and
\* the session invokes onError for a timed-out status check only after more
\* than one attempt.
C27_StatusTimeoutRetried ==
    /\ [][(pc \in {"firstStatus", "status"} /\ timedOut = 0 /\ timedOut' = 1)
            => attemptsMade' = attemptsMade + 1]_vars
    /\ [][(StatusTimedOut /\ onErrorCalls' # onErrorCalls)
            => attemptsMade > 1]_vars

\* C27 as amended: status checks run with a retry budget of 0; a status
\* check whose attempt times out is not retried and fails with the timeout
\* message after that one attempt, and when it is the first status check of
\* a session that is not cancelled the session invokes onError with it.
C27_StatusTimeoutNotRetried ==
    /\ [](pc \in {"firstStatus", "status"} => retries = 0 /\ attemptsMade <= 1)
    /\ [][(pc \in {"firstStatus", "status"} /\ timedOut' = timedOut + 1)
            => /\ attemptsMade' = attemptsMade
               /\ fetchPc' = "threw"
               /\ thrown'.message = TimeoutMessage]_vars
    /\ [][(StatusTimedOut /\ pc = "firstStatus" /\ ~cancelled)
            => /\ onErrorCalls' = onErrorCalls + 1
               /\ onErrorArg' = TimeoutMessage
               /\ pc' = "done"]_vars

C27_Witness ==
    /\ onErrorCalls = 1
    /\ onErrorArg = TimeoutMessage
    /\ statusRequests = 1
    /\ responses = <<"rejected">>
    /\ pc = "done"
    /\ ~cancelled

\* ------------------------------------- properties of the session's effect

\* C28: a session that is never torn down, whose requests are all answered
\* and whose status answers end with 'complete' or 'error', eventually
\* invokes onComplete or onError.
C28_SessionTerminates == <>(onCompleteCalls + onErrorCalls > 0)

\* C29: the cancelled flag of the running session becomes true only when
\* the component unmounts or ticker, onComplete or onError change; the
\* effect re-run that setHasStarted(true) causes leaves it false.
C29_StartDoesNotCancel ==
    [][(~cancelled /\ cancelled') => (~mounted' \/ propsChanged)]_vars

\* C30: over all effect runs of one mounted component the job-start request
\* is issued at most once.
C30_StartIssuedOnce ==
    /\ [](startRequests <= 1)
    /\ [][startRequests' # startRequests => ~hasStarted /\ hasStarted']_vars

C30_Witness ==
    /\ startRequests = 1
    /\ mounted
    /\ hasStarted
    /\ cancelled
    /\ propsChanged
    /\ effectPending
    /\ pc = "done"

\* ----------------------------------------- properties of the poll sequence

\* Status requests issued and not yet answered.
StatusInFlight == statusRequests - Len(responses)

\* C31: within one polling session at most one status request is in flight
\* and at most one poll timer is pending, and never both at once, so a new
\* status request is issued only after the previous one was answered.
C31_OnePollAtATime ==
    /\ StatusInFlight \in {0, 1}
    /\ pollTimers \in {0, 1}
    /\ StatusInFlight + pollTimers <= 1

\* The second status request of a session is in flight.
C31_Witness ==
    /\ statusRequests = 2
    /\ StatusInFlight = 1
    /\ pollTimers = 0
    /\ Len(responses) = 1

\* --------------------------------------- properties of the deadline timers

\* The call of fetchWithRetry has returned or thrown.
CallEnded == fetchPc \in {"body", "returned", "threw"}

\* C32: at most one deadline timer is armed at any time during a call of
\* fetchWithRetry, the armed timer is the one of the attempt under way (so a
\* timer armed for one attempt never aborts a later attempt), and no timer
\* remains armed when the call has returned or thrown.
C32_DeadlineTimers ==
    /\ Cardinality(timerArmed) <= 1
    /\ timerArmed \subseteq {attempt}
    /\ fetchPc = "fetching" => timerArmed = {attempt}
    /\ CallEnded => timerArmed = {}

\* A call that returned a response after a timed-out first attempt.
C32_Witness ==
    /\ fetchPc = "body"
    /\ timedOut = 1
    /\ attempt = 1
    /\ timerArmed = {}

\* ------------------------------------- properties of the page's consistency

\* C33: in every reachable state of the page, state "ready" implies that
\* company, financials and analysis are non-null and error is null, state
\* "error" implies that error is non-null, and state "indexing" implies that
\* company is non-null with is_indexed false and analysis is null.
C33_StateInvariant ==
    /\ state = "ready" =>
          /\ company # NoCompany
          /\ financials # Null
          /\ analysis # Null
          /\ pageError = Null
    /\ state = "error" => pageError # Null
    /\ state = "indexing" =>
          /\ company # NoCompany
          /\ ~company.is_indexed
          /\ analysis = Null

\* A step in which a call that began before the latest handleSearch call
\* receives a response: an earlier handleSearch, or a handleIndexComplete.
StaleResponse ==
    \/ \E i \in DOMAIN searches :
          i < Len(searches) /\ searches'[i] # searches[i]
    \/ \E j \in DOMAIN completions :
          /\ completions[j].searchesBefore < Len(searches)
          /\ completions'[j] # completions[j]

\* C34: when handleSearch was invoked while an earlier handleSearch or
\* handleIndexComplete was still awaiting a response, the responses of the
\* earlier call set none of company, financials, analysis, error and state.
C34_NoStaleOverwrite ==
    [][StaleResponse =>
          UNCHANGED << company, financials, analysis, pageError, state >>]_vars

\* ----------------------------------------- properties of the chat's gating

\* C35: a chat stream request is issued only while the orchestrator state is
\* "ready" (the prop isReady, which the page passes as state === "ready") and
\* only for a message that is not blank; while the state is not "ready" and
\* no send is under way, no handleSend changes the transcript or isStreaming
\* (the transcript changes only when the ticker changes).
C35_ChatGatedOnReady ==
    [][/\ sends' # sends =>
            /\ isReady
            /\ Len(messages') = Len(messages) + 2
            /\ ~IsBlank(messages'[Len(messages') - 1].content)
       /\ (~isReady /\ chatPc = "idle") =>
            /\ sends' = sends
            /\ isStreaming' = isStreaming
            /\ chatTicker' = chatTicker => messages' = messages]_vars

\* A stream request was issued in state "ready" for a message.
C35_Witness ==
    /\ sends = 1
    /\ chatPc = "opening"
    /\ isReady
    /\ Len(messages) = 2
    /\ ~IsBlank(messages[1].content)

\* --------------------------------------- properties of a chat turn's errors

\* An error event was delivered in the turn under way.
ErrorDelivered ==
    /\ chatPc = "streaming"
    /\ \E i \in 1..delivered : script[i].type = "error"

\* C36: an error event is terminal for its chat turn: once it has replaced
\* the trailing assistant entry, that entry keeps its content until the turn
\* ends, whatever events the stream delivers afterwards.
C36_ErrorIsTerminal ==
    [][(/\ ErrorDelivered
        /\ messages # <<>>
        /\ messages' # <<>>
        /\ chatPc' = "streaming")
          => Last(messages') = Last(messages)]_vars

\* ------------------------------------------ properties of a chat turn's end

\* The step ends the stream of the send under way.
StreamEnds == chatPc # "idle" /\ chatPc' = "idle"

\* The step is a failure of the send under way: an error event is delivered,
\* or streamChat throws.
SendFails ==
    \/ /\ chatPc = "streaming"
       /\ delivered' = delivered + 1
       /\ script[delivered'].type = "error"
    \/ StreamEnds /\ lastEvent' = "thrown"

\* An assistant entry whose content starts with "Error: ".
IsErrorEntry(entry) ==
    /\ entry.role = "assistant"
    /\ entry.content # <<>>
    /\ Head(entry.content) = "Error: "

\* C37 as stated: every accepted handleSend resets isStreaming to false once
\* its stream ends, and in each failure case the trailing assistant entry is
\* replaced by an "Error: ..." entry and no entry is added or removed.
C37_SendEndsWithError ==
    /\ [][/\ StreamEnds => ~isStreaming'
          /\ SendFails =>
                /\ Len(messages') = Len(messages)
                /\ messages' # <<>>
                /\ IsErrorEntry(Last(messages'))]_vars
    /\ (isStreaming ~> ~isStreaming)

\* C37, amended: every accepted handleSend resets isStreaming to false once
\* its stream ends; in each failure case no entry is added or removed, and
\* the trailing assistant entry is replaced by an "Error: ..." entry unless
\* the ticker changed during the send, in which case the transcript stays
\* empty.
C37_SendEndsWithErrorUnlessReset ==
    /\ [][/\ StreamEnds => ~isStreaming'
          /\ SendFails =>
                /\ Len(messages') = Len(messages)
                /\ ~resetDuringSend =>
                      /\ messages' # <<>>
                      /\ IsErrorEntry(Last(messages'))
                      /\ SubSeq(messages', 1, Len(messages) - 1)
                            = SubSeq(messages, 1, Len(messages) - 1)
                /\ resetDuringSend => messages' = <<>>]_vars
    /\ (isStreaming ~> ~isStreaming)

\* A send that failed to open: isStreaming is false again and the transcript
\* holds the user entry and the error entry.
C37_Witness ==
    /\ sends = 1
    /\ chatPc = "idle"
    /\ lastEvent = "thrown"
    /\ ~isStreaming
    /\ ~resetDuringSend
    /\ delivered = 0
    /\ Len(messages) = 2
    /\ IsErrorEntry(messages[2])

\* -------------------------------- properties of the transcript across tickers

\* C38: when the ticker changes the transcript is reset to empty, and no
\* step of a chat stream that was started for the previous ticker (an event,
\* its close, its failure) adds or changes an entry of the transcript shown
\* for the new ticker.
C38_TranscriptIsolation ==
    [][/\ chatTicker' # chatTicker => messages' = <<>>
       /\ (/\ resetDuringSend
           /\ chatPc # "idle"
           /\ delivered' # delivered \/ chatPc' # chatPc)
             => messages' = messages]_vars

\* The stream of a send made for AAPL has delivered its events, and the
\* transcript shown for MSFT is empty.
C38_Witness ==
    /\ chatTicker = "MSFT"
    /\ resetDuringSend
    /\ sends = 1
    /\ chatPc = "streaming"
    /\ delivered = 3
    /\ fullContent # <<>>
    /\ messages = <<>>

\* --------------------------------------- properties of the debounced search

\* The step issues a search request.
RequestIssued == Len(searchRequests') = Len(searchRequests) + 1

\* The step delivers the response of request r, which was issued for
\* another query than the one the input holds.
StaleSearchResponse(r) ==
    /\ r \in DOMAIN searchRequests
    /\ searchRequests'[r] # searchRequests[r]
    /\ searchRequests[r].trimmed # TrimRight(TrimLeft(query))

\* C39: a search request is issued only for the query the input has held
\* for 300 ms, with at least 2 characters after trimming and not ticker-like;
\* and the response of a request issued for an earlier query never replaces
\* the results shown for a later query.
C39_DebouncedFreshness ==
    [][/\ RequestIssued =>
            LET trimmed == searchRequests'[Len(searchRequests')].trimmed IN
            /\ trimmed = TrimRight(TrimLeft(query))
            /\ Len(trimmed) >= 2
            /\ ~TickerLike(trimmed)
       /\ \A r \in 1..MaxRequests :
            StaleSearchResponse(r) =>
                UNCHANGED << results, showDropdown >>]_vars

====
